---- MODULE Spec2Model ----
\* Keyset pagination of gor_picture.go (type PicturePage) over the table
\* "pictures", together with the two storage helpers it calls
\* (PictureCountWhere, FindPicturesWhere).
EXTENDS Integers, Sequences, FiniteSets, TLC

\* ---------------------------------------------------------------- bounds
MaxRows == 3        \* rows of the small data sets
MaxPerPage == 2     \* largest explicit PerPage of the small configurations
MaxPageNum == 3     \* Next is not called any more once PageNum reaches it
MaxWrites == 1      \* inserts and deletes between the calls of one run

\* ------------------------------------------------------------- constants
DefaultPerPage == 10

Names == {"x", "y"}
Directions == {"asc", "desc", "DESC"}

\* A row of the table pictures: only the columns the queries of the model use.
Row(i, n) == [id |-> i, name |-> n]

ScenarioIds == 1..25
ScenarioDb == {Row(i, IF i % 2 = 1 THEN "x" ELSE "y") : i \in ScenarioIds}

\* a table with three names, ids and names in different orders
ThreeNamesDb == {Row(1, "z"), Row(2, "x"), Row(3, "y"), Row(4, "z")}

SmallDbs ==
  UNION {{{Row(i, f[i]) : i \in 1..n} : f \in [1..n -> Names]} : n \in 0..MaxRows}

\* ------------------------------------------------------------ SQL engine
\* A WHERE clause is a sequence of tokens: atoms with one placeholder each,
\* joined by "AND" / "OR".  The caller's filters of the model:
\*   ""                         <<>>
\*   "name = ?"                 <<"name = ?">>
\*   "name = ? OR name = ?"     <<"name = ?", "OR", "name = ?">>
Connectives == {"AND", "OR"}

\* index of the placeholder of the atom at position i (placeholders bind
\* positionally, left to right)
PlaceholderAt(toks, i) == Cardinality({j \in 1..i : toks[j] \notin Connectives})

AtomHolds(tok, v, r) ==
  CASE tok = "name = ?" -> r.name = v
    [] tok = "id > ?"   -> r.id > v
    [] tok = "id < ?"   -> r.id < v
    [] tok = "id >= ?"  -> r.id >= v
    [] tok = "id <= ?"  -> r.id <= v

\* SQL precedence: AND binds tighter than OR, so the clause is a disjunction
\* of the maximal OR-free runs, each run being a conjunction of its atoms.
SqlWhere(toks, params, r) ==
  \E a \in 1..Len(toks) : \E b \in a..Len(toks) :
     /\ a = 1 \/ toks[a - 1] = "OR"
     /\ b = Len(toks) \/ toks[b + 1] = "OR"
     /\ \A i \in a..b : toks[i] # "OR"
     /\ \A i \in a..b :
          toks[i] = "AND" \/ AtomHolds(toks[i], params[PlaceholderAt(toks, i)], r)

ToLower(s) == IF s = "DESC" THEN "desc" ELSE s

NameRank(n) == CASE n = "x" -> 1 [] n = "y" -> 2 [] OTHER -> 3

ColumnValue(r, col) == IF col = "id" THEN r.id ELSE NameRank(r.name)

\* r1 sorts strictly before r2 under the ORDER BY list ord (a sequence of
\* <<column, direction>>); the direction keyword is case-insensitive in SQL.
\* Rows that tie on the whole list come in table order, which no query of the
\* paginator relies on: its list always has the unique column id.
RECURSIVE SqlBefore(_, _, _)
SqlBefore(r1, r2, ord) ==
  IF ord = <<>> THEN r1.id < r2.id
  ELSE LET a == ColumnValue(r1, Head(ord)[1])
           b == ColumnValue(r2, Head(ord)[1])
       IN  IF a = b THEN SqlBefore(r1, r2, Tail(ord))
           ELSE IF ToLower(Head(ord)[2]) = "desc" THEN a > b ELSE a < b

SqlOrderBy(S, ord) ==
  [i \in 1..Cardinality(S) |->
     CHOOSE r \in S : Cardinality({q \in S : SqlBefore(q, r, ord)}) = i - 1]

SqlLimit_OneMore(s, n) == SubSeq(s, 1, IF n + 1 < Len(s) THEN n + 1 ELSE Len(s))

SqlLimit(s, n) == SubSeq(s, 1, IF n < Len(s) THEN n ELSE Len(s))

Ids(rows) == [i \in 1..Len(rows) |-> rows[i].id]

\* every order in which the keys of a Go map can be iterated
IterationOrders(S) ==
  {p \in [1..Cardinality(S) -> S] : \A i, j \in 1..Cardinality(S) : i # j => p[i] # p[j]}

\* ----------------------------------------------------------------- state
VARIABLES
  db,            \* the rows of table pictures
  WhereString, WhereParams, Order,          \* PicturePage configuration
  FirstId, LastId, PageNum, PerPage, TotalPages, TotalItems, orderStr,
  fresh,         \* the PicturePage was created with zero cursor fields
  pre,           \* the PicturePage fields when the last call was entered
  last,          \* the last call: operation, error, rows, storage calls issued
  walk,          \* position in the pattern Current(), Next(), Next(), ...
  seen,          \* ids returned so far by the calls of that pattern
  saved,         \* <<FirstId, LastId>> before the last Next() of the pattern
  ret,           \* what the caller's last call returned: rows and error value
  nextId,        \* the auto-increment counter of column id
  writes,        \* number of inserts and deletes so far
  stable,        \* ids matching the filter since the pattern began
  clauses,       \* every ORDER BY list rendered so far from the Order map
  race           \* two goroutines inside Next() on the one PicturePage

config == <<db, WhereString, WhereParams, Order, nextId, writes, race>>
vars == <<db, WhereString, WhereParams, Order,
          FirstId, LastId, PageNum, PerPage, TotalPages, TotalItems, orderStr,
          fresh, pre, last, walk, seen, saved, ret, nextId, writes, stable, clauses,
          race>>

\* the mutable fields of the PicturePage as one record
Page ==
  [FirstId |-> FirstId, LastId |-> LastId, PageNum |-> PageNum, PerPage |-> PerPage,
   TotalPages |-> TotalPages, TotalItems |-> TotalItems, orderStr |-> orderStr]

\* no id restriction built, no query sent
NoRestrict == [idStr |-> <<>>, idParams |-> <<>>]

NoQuery == [cond |-> <<>>, order |-> <<>>, limit |-> 0, params |-> <<>>]

NoCall ==
  [op |-> "none", err |-> "none", rows |-> <<>>, counts |-> 0, finds |-> 0,
   id |-> NoRestrict, query |-> NoQuery]

NoRet == [api |-> "none", arg |-> "", rows |-> <<>>, err |-> "nil"]

\* the goroutines sharing the PicturePage
Callers == {1, 2}

\* a goroutine that has not entered Next(): its position and its locals
Idle == [pc |-> "idle", err |-> "none", id |-> NoRestrict, query |-> NoQuery,
         rows |-> <<>>, n |-> 0]

NoRace == [overlap |-> FALSE, calls |-> [i \in Callers |-> Idle]]

\* --------------------------------------------------------------- storage
\* the error value a failing storage call returns
DbError == "storage error"

\* SELECT count(*) FROM pictures [WHERE where]
PictureCountWhere(where, args) ==
  IF Len(where) > 0
    THEN Cardinality({r \in db : SqlWhere(where, args, r)})
    ELSE Cardinality(db)

\* SELECT ... FROM pictures [WHERE where]; the where text of the paginator
\* carries the condition, the ORDER BY list and the LIMIT.
FindPicturesWhere(where, args) ==
  LET matching == IF Len(where.cond) > 0
                    THEN {r \in db : SqlWhere(where.cond, args, r)}
                    ELSE db
  IN  SqlLimit(SqlOrderBy(matching, where.order), where.limit)

\* ids of the rows matching the caller's filter
MatchingIds ==
  {r.id : r \in {q \in db : WhereString = <<>> \/ SqlWhere(WhereString, WhereParams, q)}}

\* ------------------------------------------------------------- paginator
HasIdOrder_Unchecked == TRUE

HasIdOrder == "id" \in DOMAIN Order

\* _p.Order["id"]: a missing key reads as the empty string
OrderId == IF "id" \in DOMAIN Order THEN Order["id"] ELSE ""

IdDesc == ToLower(OrderId) = "desc"

CeilDiv_Floor(items, perPage) == items \div perPage

CeilDiv_ExtraPage(items, perPage) == items \div perPage + 1

\* math.Ceil(float64(items) / float64(perPage)) for perPage > 0
CeilDiv(items, perPage) == (items + perPage - 1) \div perPage

buildPageCount_DefaultFirst(p, countErr) ==
  LET count == PictureCountWhere(WhereString, WhereParams)
      perPage == IF p.PerPage = 0 THEN DefaultPerPage ELSE p.PerPage
  IN  IF countErr
        THEN [p EXCEPT !.PerPage = perPage]
        ELSE [p EXCEPT !.TotalItems = count, !.PerPage = perPage,
                       !.TotalPages = CeilDiv(count, perPage)]

\* the fields buildPageCount leaves behind: nothing is written when the count
\* fails (countErr), else TotalItems, the defaulted PerPage and TotalPages
buildPageCount_FromCursor(p, countErr) ==
  LET count == PictureCountWhere(
                 WhereString \o (IF WhereString # <<>> THEN <<"AND">> ELSE <<>>)
                             \o <<"id > ?">>,
                 WhereParams \o <<p.LastId>>)
      perPage == IF p.PerPage = 0 THEN DefaultPerPage ELSE p.PerPage
  IN  IF countErr
        THEN p
        ELSE [p EXCEPT !.TotalItems = count, !.PerPage = perPage,
                       !.TotalPages = CeilDiv(count, perPage)]

buildPageCount(p, countErr) ==
  LET count == PictureCountWhere(WhereString, WhereParams)
      perPage == IF p.PerPage = 0 THEN DefaultPerPage ELSE p.PerPage
  IN  IF countErr
        THEN p
        ELSE [p EXCEPT !.TotalItems = count, !.PerPage = perPage,
                       !.TotalPages = CeilDiv(count, perPage)]

\* the ORDER BY lists buildOrder can render: one per iteration order of the map
buildOrder ==
  {[i \in DOMAIN o |-> <<o[i], Order[o[i]]>>] : o \in IterationOrders(DOMAIN Order)}

OrderChoices_Rebuild == buildOrder

\* if _p.orderStr == "" { _p.buildOrder() }: the list the query will carry
OrderChoices == IF orderStr = <<>> THEN buildOrder ELSE {orderStr}

buildIdRestrict_NextAscOnly(direction) ==
  LET r == CASE direction = "previous" ->
                  IF IdDesc THEN [idStr |-> <<"id > ?">>, idParams |-> <<FirstId>>]
                            ELSE [idStr |-> <<"id < ?">>, idParams |-> <<FirstId>>]
             [] direction = "current" ->
                  IF PageNum = 0 /\ FirstId = 0 /\ LastId = 0
                    THEN [idStr |-> <<"id > ?">>, idParams |-> <<0>>]
                    ELSE IF IdDesc
                      THEN [idStr |-> <<"id <= ?", "AND", "id >= ?">>,
                            idParams |-> <<FirstId, LastId>>]
                      ELSE [idStr |-> <<"id >= ?", "AND", "id <= ?">>,
                            idParams |-> <<FirstId, LastId>>]
             [] direction = "next" ->
                  [idStr |-> <<"id > ?">>, idParams |-> <<LastId>>]
             [] OTHER -> [idStr |-> <<>>, idParams |-> <<>>]
  IN  IF WhereString # <<>> THEN [r EXCEPT !.idStr = <<"AND">> \o @] ELSE r

buildIdRestrict(direction) ==
  LET r == CASE direction = "previous" ->
                  IF IdDesc THEN [idStr |-> <<"id > ?">>, idParams |-> <<FirstId>>]
                            ELSE [idStr |-> <<"id < ?">>, idParams |-> <<FirstId>>]
             [] direction = "current" ->
                  IF PageNum = 0 /\ FirstId = 0 /\ LastId = 0
                    THEN [idStr |-> <<"id > ?">>, idParams |-> <<0>>]
                    ELSE IF IdDesc
                      THEN [idStr |-> <<"id <= ?", "AND", "id >= ?">>,
                            idParams |-> <<FirstId, LastId>>]
                      ELSE [idStr |-> <<"id >= ?", "AND", "id <= ?">>,
                            idParams |-> <<FirstId, LastId>>]
             [] direction = "next" ->
                  IF IdDesc THEN [idStr |-> <<"id < ?">>, idParams |-> <<LastId>>]
                            ELSE [idStr |-> <<"id > ?">>, idParams |-> <<LastId>>]
             [] OTHER -> [idStr |-> <<>>, idParams |-> <<>>]
  IN  IF WhereString # <<>> THEN [r EXCEPT !.idStr = <<"AND">> \o @] ELSE r

\* the pattern "fresh paginator, Current(), then Next() until it fails":
\*   fresh -> walking (Current succeeded) -> walking (each Next that succeeds)
\*   -> done (Next failed with the boundary error); a Previous() that succeeds
\*   right after a Next() of the pattern gives "back", a Previous() that fails
\*   with the boundary error during the pattern "refused"; any other call: "off".
WalkAfter(op, err) ==
  CASE walk = "fresh" /\ op = "Current" /\ err = "none" -> "walking"
    [] walk = "walking" /\ op = "Next" /\ err = "none" -> "walking"
    [] walk = "walking" /\ op = "Next" /\ err = "boundary" -> "done"
    [] walk = "walking" /\ op = "Previous" /\ err = "none"
         /\ last.op = "Next" /\ last.err = "none" -> "back"
    [] walk = "walking" /\ op = "Previous" /\ err = "boundary" -> "refused"
    [] OTHER -> "off"

\* a call returns: the fields it leaves behind, and what the caller observed
Return(op, err, rows, counts, finds, id, query, p) ==
  /\ FirstId' = p.FirstId /\ LastId' = p.LastId /\ PageNum' = p.PageNum
  /\ PerPage' = p.PerPage /\ TotalPages' = p.TotalPages
  /\ TotalItems' = p.TotalItems /\ orderStr' = p.orderStr
  /\ pre' = Page
  /\ last' = [op |-> op, err |-> err, rows |-> Ids(rows),
              counts |-> counts, finds |-> finds, id |-> id, query |-> query]
  /\ walk' = WalkAfter(op, err)
  /\ seen' = IF WalkAfter(op, err) = "walking" THEN seen \o Ids(rows) ELSE seen
  /\ saved' = IF op = "Next" /\ err = "none" THEN <<FirstId, LastId>> ELSE saved
  /\ stable' = IF walk = "fresh" /\ WalkAfter(op, err) = "walking"
                 THEN MatchingIds ELSE stable
  /\ clauses' = IF p.orderStr # <<>> THEN clauses \cup {p.orderStr} ELSE clauses
  /\ UNCHANGED <<config, fresh>>

withBounds_Swapped(p, rows) ==
  IF Len(rows) # 0
    THEN [p EXCEPT !.FirstId = rows[Len(rows)].id, !.LastId = rows[1].id]
    ELSE p

withBounds_FirstOnly(p, rows) ==
  IF Len(rows) # 0
    THEN [p EXCEPT !.FirstId = rows[1].id, !.LastId = rows[1].id]
    ELSE p

\* the first and last id of a non-empty result become the bounds of the page
withBounds(p, rows) ==
  IF Len(rows) # 0
    THEN [p EXCEPT !.FirstId = rows[1].id, !.LastId = rows[Len(rows)].id]
    ELSE p

\* the storage can fail any call
StorageFails == BOOLEAN

\* the common body of Current, Previous and Next after the page-boundary check
Query(op, direction, delta) ==
  IF ~HasIdOrder
    THEN Return(op, "config", <<>>, 0, 0, NoRestrict, NoQuery, Page)
    ELSE \E countErr \in StorageFails :
      IF countErr
        THEN Return(op, "count", <<>>, 1, 0, NoRestrict, NoQuery,
                    buildPageCount(Page, TRUE))
        ELSE \E ord \in OrderChoices :
             \E findErr \in StorageFails :
          LET counted == [buildPageCount(Page, FALSE) EXCEPT !.orderStr = ord]
              id == buildIdRestrict(direction)
              whereStr == [cond |-> WhereString \o id.idStr, order |-> ord,
                           limit |-> counted.PerPage]
              whereParams == WhereParams \o id.idParams
              pictures == FindPicturesWhere(whereStr, whereParams)
              query == [cond |-> whereStr.cond, order |-> whereStr.order,
                        limit |-> whereStr.limit, params |-> whereParams]
          IN  IF findErr
                THEN Return(op, "find", <<>>, 1, 1, id, query, counted)
                ELSE Return(op, "none", pictures, 1, 1, id, query,
                            [withBounds(counted, pictures) EXCEPT !.PageNum = @ + delta])

Current == Query("Current", "current", 0)

\* fmt.Errorf("Calculate page count error: %v", err): a new error value
Errorf(e) ==
  IF e = DbError THEN "Calculate page count error: storage error"
                 ELSE "Calculate page count error: nil"

ErrorValue_WrapsFind(op, kind) ==
  CASE kind = "none" -> "nil"
    [] kind = "config" -> "No id order specified in Order map"
    [] kind = "boundary" /\ op = "Previous" ->
         "This's the first page, no previous page yet"
    [] kind = "boundary" /\ op = "Next" -> "This's the last page, no next page yet"
    [] kind = "count" -> Errorf(DbError)
    [] kind = "find" -> Errorf(DbError)

\* the error value a call returns on each of its return paths
ErrorValue(op, kind) ==
  CASE kind = "none" -> "nil"
    [] kind = "config" -> "No id order specified in Order map"
    [] kind = "boundary" /\ op = "Previous" ->
         "This's the first page, no previous page yet"
    [] kind = "boundary" /\ op = "Next" -> "This's the last page, no next page yet"
    [] kind = "count" -> Errorf(DbError)
    [] kind = "find" -> DbError

AtFirstPage_Negative == PageNum < 0

AtFirstPage == PageNum = 0

Previous_Stay ==
  IF AtFirstPage
    THEN Return("Previous", "boundary", <<>>, 0, 0, NoRestrict, NoQuery, Page)
    ELSE Query("Previous", "previous", 0)

Previous ==
  IF AtFirstPage
    THEN Return("Previous", "boundary", <<>>, 0, 0, NoRestrict, NoQuery, Page)
    ELSE Query("Previous", "previous", -1)

AtLastPage_OffByOne == PageNum = TotalPages

AtLastPage == PageNum = TotalPages - 1

Next ==
  /\ PageNum < MaxPageNum
  /\ IF AtLastPage
       THEN Return("Next", "boundary", <<>>, 0, 0, NoRestrict, NoQuery, Page)
       ELSE Query("Next", "next", 1)

\* ------------------------------------------------------------------ Init
\* the Order maps a caller can configure
IdOrderMaps == [{"id"} -> Directions]

OrderMaps ==
  {<<>>, [id |-> "asc"], [id |-> "DESC"], [id |-> "asc", name |-> "desc"]}

\* the caller's filters: none, name = 'x', name = 'x' OR name = 'y'
Filters ==
  {[str |-> <<>>, params |-> <<>>],
   [str |-> <<"name = ?">>, params |-> <<"x">>],
   [str |-> <<"name = ?", "OR", "name = ?">>, params |-> <<"x", "y">>]}

PerPages == 0..MaxPerPage

\* cursor values <<PageNum, TotalPages, FirstId, LastId>> of a PicturePage the
\* caller built with a struct literal instead of leaving them zero
PresetCursors ==
  {<<1, 2, 2, 2>>, <<0, 3, 1, 1>>}

\* a PicturePage as the caller configures it, with the cursor fields zero
InitFresh ==
  /\ \/ /\ db \in SmallDbs
        /\ \E f \in Filters : WhereString = f.str /\ WhereParams = f.params
        /\ Order \in OrderMaps
        /\ PerPage \in PerPages
        \* the filter with a top-level OR is paired with the single-column orders
        /\ Len(WhereString) > 1 => Order \in {[id |-> "asc"], [id |-> "DESC"]}
     \/ /\ db = ScenarioDb
        /\ WhereString = <<>> /\ WhereParams = <<>>
        /\ Order \in IdOrderMaps
        /\ PerPage = DefaultPerPage
     \/ /\ db = ThreeNamesDb
        /\ WhereString = <<>> /\ WhereParams = <<>>
        /\ Order = [id |-> "asc", name |-> "desc"]
        /\ PerPage = 3
  /\ PageNum = 0 /\ TotalPages = 0 /\ FirstId = 0 /\ LastId = 0
  /\ walk = "fresh" /\ fresh = TRUE

\* a PicturePage whose exported cursor fields the caller has set
InitPreset ==
  /\ db \in {d \in SmallDbs : \A r \in d : r.name = "x"}
  /\ WhereString = <<>> /\ WhereParams = <<>>
  /\ Order \in {<<>>, [id |-> "asc"]}
  /\ PerPage = 1
  /\ \E c \in PresetCursors :
       PageNum = c[1] /\ TotalPages = c[2] /\ FirstId = c[3] /\ LastId = c[4]
  /\ walk = "off" /\ fresh = FALSE

Init ==
  /\ InitFresh \/ InitPreset
  /\ TotalItems = 0 /\ orderStr = <<>>
  /\ pre = Page /\ last = NoCall /\ seen = <<>> /\ saved = <<0, 0>>
  /\ ret = NoRet
  /\ nextId = Cardinality(db) + 1 /\ writes = 0 /\ stable = {} /\ clauses = {}
  /\ race = NoRace

\* the caller calls Current, Previous or Next and receives its rows and error
Nav ==
  /\ Current \/ Previous \/ Next
  /\ ret' = [api |-> last'.op, arg |-> "", rows |-> last'.rows,
             err |-> ErrorValue(last'.op, last'.err)]

Spec == Init /\ [][Nav]_vars

\* ------------------------------------------------------- the environment
\* another session inserts a row: INSERT takes the next value of the sequence
Insert ==
  /\ writes < MaxWrites
  /\ \E n \in Names : db' = db \cup {Row(nextId, n)}
  /\ nextId' = nextId + 1 /\ writes' = writes + 1
  /\ UNCHANGED <<WhereString, WhereParams, Order, FirstId, LastId, PageNum,
                 PerPage, TotalPages, TotalItems, orderStr,
                 fresh, pre, last, walk, seen, saved, ret, stable, clauses, race>>

\* another session deletes a row
Delete ==
  /\ writes < MaxWrites
  /\ \E r \in db : db' = db \ {r} /\ stable' = stable \ {r.id}
  /\ writes' = writes + 1
  /\ UNCHANGED <<WhereString, WhereParams, Order, FirstId, LastId, PageNum,
                 PerPage, TotalPages, TotalItems, orderStr,
                 fresh, pre, last, walk, seen, saved, ret, nextId, clauses, race>>

\* the caller starts a new listing: a new PicturePage with the same filter,
\* Order map and page size, all other fields zero
NewPage ==
  /\ last.op # "none"
  /\ FirstId' = 0 /\ LastId' = 0 /\ PageNum' = 0 /\ TotalPages' = 0
  /\ TotalItems' = 0 /\ orderStr' = <<>>
  /\ fresh' = TRUE /\ walk' = "fresh" /\ seen' = <<>> /\ saved' = <<0, 0>>
  /\ pre' = [Page EXCEPT !.FirstId = 0, !.LastId = 0, !.PageNum = 0,
                         !.TotalPages = 0, !.TotalItems = 0, !.orderStr = <<>>]
  /\ last' = NoCall /\ ret' = NoRet /\ stable' = {}
  /\ UNCHANGED <<config, PerPage, clauses>>

\* fresh paginators over tables whose rows are all named x
InitPlain ==
  /\ Init
  /\ fresh
  /\ db \in {d \in SmallDbs : \A r \in d : r.name = "x"}
  /\ Len(WhereString) <= 1
  /\ "id" \in DOMAIN Order

InitWrites ==
  InitPlain /\ WhereString = <<>> /\ Order = [id |-> "asc"] /\ PerPage \in 1..MaxPerPage

\* navigation while other sessions write
SpecWrites == InitWrites /\ [][Nav \/ Insert \/ Delete]_vars

\* navigation by one listing after the other
SpecListings == InitPlain /\ [][Nav \/ NewPage]_vars

\* the caller assigns another map to the exported field Order of a paginator
\* that has cached its ORDER BY list; `last` and `ret` start afresh, so that
\* they describe a call made under the new map
SetOrder ==
  /\ orderStr # <<>>
  /\ Order' \in OrderMaps \ {Order}
  /\ last' = NoCall /\ ret' = NoRet
  /\ UNCHANGED <<db, WhereString, WhereParams, nextId, writes, race,
                 FirstId, LastId, PageNum, PerPage, TotalPages, TotalItems,
                 orderStr, fresh, pre, walk, seen, saved, stable, clauses>>

\* navigation with the Order map changed between calls
InitReorder == InitPlain /\ WhereString = <<>> /\ PerPage \in 1..MaxPerPage

SpecReorder == InitReorder /\ [][Nav \/ SetOrder]_vars

\* ------------------------------------------- two goroutines, one paginator
\* Next() has no lock: each read and each write of a field of *_p is a step
\* of its own, and the steps of two goroutines interleave freely.

\* goroutine i is inside Next()
Inside(i) == race.calls[i].pc \notin {"idle", "done"}

\* goroutine i takes a step that leaves the fields p and its locals c
RaceStep(i, c, p) ==
  /\ FirstId' = p.FirstId /\ LastId' = p.LastId /\ PageNum' = p.PageNum
  /\ PerPage' = p.PerPage /\ TotalPages' = p.TotalPages
  /\ TotalItems' = p.TotalItems /\ orderStr' = p.orderStr
  /\ race' = [overlap |-> race.overlap \/ \E j \in Callers \ {i} : Inside(j),
              calls |-> [race.calls EXCEPT ![i] = c]]
  /\ UNCHANGED <<db, WhereString, WhereParams, Order, nextId, writes,
                 fresh, pre, last, walk, seen, saved, ret, stable, clauses>>

\* lines 102-107: the boundary check and the Order check
Enter(i) ==
  LET c == race.calls[i] IN
  /\ c.pc = "idle"
  /\ PageNum < MaxPageNum
  /\ IF AtLastPage
       THEN RaceStep(i, [c EXCEPT !.pc = "done", !.err = "boundary"], Page)
       ELSE IF ~HasIdOrder
         THEN RaceStep(i, [c EXCEPT !.pc = "done", !.err = "config"], Page)
         ELSE RaceStep(i, [c EXCEPT !.pc = "count"], Page)

\* lines 108-111: buildPageCount writes TotalItems, PerPage and TotalPages
Count(i) ==
  LET c == race.calls[i] IN
  /\ c.pc = "count"
  /\ \E countErr \in StorageFails :
       IF countErr
         THEN RaceStep(i, [c EXCEPT !.pc = "done", !.err = "count"],
                       buildPageCount(Page, TRUE))
         ELSE RaceStep(i, [c EXCEPT !.pc = "build"], buildPageCount(Page, FALSE))

\* lines 112-118: the ORDER BY list if none is cached, the restriction from
\* the LastId read now, and the query text and parameters
Build(i) ==
  LET c == race.calls[i] IN
  /\ c.pc = "build"
  /\ \E ord \in OrderChoices :
       LET id == buildIdRestrict("next")
           query == [cond |-> WhereString \o id.idStr, order |-> ord,
                     limit |-> PerPage, params |-> WhereParams \o id.idParams]
       IN  RaceStep(i, [c EXCEPT !.pc = "find", !.id = id, !.query = query],
                    [Page EXCEPT !.orderStr = ord])

\* lines 119-122: the query runs against the table as it is now
Find(i) ==
  LET c == race.calls[i]
      pictures == FindPicturesWhere(c.query, c.query.params)
  IN
  /\ c.pc = "find"
  /\ \E findErr \in StorageFails :
       IF findErr
         THEN RaceStep(i, [c EXCEPT !.pc = "done", !.err = "find"], Page)
         ELSE RaceStep(i, [c EXCEPT !.rows = Ids(pictures),
                                    !.pc = IF Len(pictures) # 0 THEN "first"
                                                                ELSE "read"],
                       Page)

\* line 124, left operand: _p.FirstId = pictures[0].Id
SetFirst(i) ==
  LET c == race.calls[i] IN
  /\ c.pc = "first"
  /\ RaceStep(i, [c EXCEPT !.pc = "last"], [Page EXCEPT !.FirstId = c.rows[1]])

\* line 124, right operand: _p.LastId = pictures[len(pictures)-1].Id
SetLast(i) ==
  LET c == race.calls[i] IN
  /\ c.pc = "last"
  /\ RaceStep(i, [c EXCEPT !.pc = "read"],
              [Page EXCEPT !.LastId = c.rows[Len(c.rows)]])

\* line 126: _p.PageNum += 1 reads the field ...
ReadPageNum(i) ==
  LET c == race.calls[i] IN
  /\ c.pc = "read"
  /\ RaceStep(i, [c EXCEPT !.pc = "write", !.n = PageNum], Page)

\* ... and writes it; line 127 returns the rows
WritePageNum(i) ==
  LET c == race.calls[i] IN
  /\ c.pc = "write"
  /\ RaceStep(i, [c EXCEPT !.pc = "done"], [Page EXCEPT !.PageNum = c.n + 1])

RaceNext ==
  \E i \in Callers :
    \/ Enter(i) \/ Count(i) \/ Build(i) \/ Find(i)
    \/ SetFirst(i) \/ SetLast(i) \/ ReadPageNum(i) \/ WritePageNum(i)

\* a new PicturePage handed to two goroutines
InitRace ==
  /\ Init
  /\ fresh
  /\ db \in {d \in SmallDbs : \A r \in d : r.name = "x"}
  /\ "id" \in DOMAIN Order
  /\ PerPage \in 1..MaxPerPage

SpecRace == InitRace /\ [][RaceNext]_vars

\* -------------------------------------------------------------- GetPage
WrongDirection == "Error: wrong dircetion! None of previous, current or next!"

Dispatch_DefaultCurrent(direction) ==
  CASE direction = "previous" -> "Previous"
    [] direction = "next" -> "Next"
    [] OTHER -> "Current"

\* the case of the switch that a direction string selects
Dispatch(direction) ==
  CASE direction = "previous" -> "Previous"
    [] direction = "next" -> "Next"
    [] direction = "current" -> "Current"
    [] OTHER -> "default"

SwallowedError_Kept(e) == e

\* ps, _ = _p.Next(): the delegate's error is dropped, err stays nil
SwallowedError(e) == "nil"

GetPage(direction) ==
  LET delegated == [api |-> "GetPage", arg |-> direction, rows |-> last'.rows,
                    err |-> SwallowedError(ErrorValue(last'.op, last'.err))]
  IN  \/ Dispatch(direction) = "Previous" /\ Previous /\ ret' = delegated
      \/ Dispatch(direction) = "Next" /\ Next /\ ret' = delegated
      \/ Dispatch(direction) = "Current" /\ Current /\ ret' = delegated
      \/ /\ Dispatch(direction) = "default"
         /\ ret' = [api |-> "GetPage", arg |-> direction, rows |-> <<>>,
                    err |-> WrongDirection]
         /\ pre' = Page
         /\ last' = [NoCall EXCEPT !.op = "GetPage", !.err = "direction"]
         /\ walk' = "off"
         /\ UNCHANGED <<config, fresh, seen, saved, stable, clauses, FirstId,
                        LastId, PageNum, PerPage, TotalPages, TotalItems, orderStr>>

\* the direction strings callers pass
DirectionArgs == {"previous", "current", "next", "Next", ""}

GetPageCall == \E direction \in DirectionArgs : GetPage(direction)

\* the caller navigates through GetPage only
\* the paginators GetPage is exercised on: tables whose rows are all named x,
\* filters of at most one condition
InitGetPage ==
  /\ Init
  /\ \A r \in db : r.name = "x"
  /\ Len(WhereString) <= 1

SpecGetPage == InitGetPage /\ [][GetPageCall]_vars

\* ---------------------------------------------------------------- claims
SeqRange(s) == {s[i] : i \in 1..Len(s)}

Increasing(s) == \A i, j \in 1..Len(s) : i < j => s[i] < s[j]

FromTo(a, b) == [i \in 1..(b - a + 1) |-> a + i - 1]

DownTo(a, b) == [i \in 1..(a - b + 1) |-> a - i + 1]

Called == last.op # "none"

CursorUnchanged ==
  FirstId = pre.FirstId /\ LastId = pre.LastId /\ PageNum = pre.PageNum

NoStorageCall == last.counts = 0 /\ last.finds = 0

\* C1: with Order = {id: asc}, a fresh paginator's Current() followed by Next()
\* until the boundary error has returned exactly the ids matching the filter,
\* each once, in increasing order.
C1_EnumeratesAscending ==
  (walk = "done" /\ Order = [id |-> "asc"])
    => (Increasing(seen) /\ SeqRange(seen) = MatchingIds)

\* C2: on a page reached by Current() and successive Next() calls, Next() then
\* Previous() restores FirstId and LastId (stated here for the unfiltered
\* listing, where it already fails).
C2_NextPreviousRoundTrip ==
  (walk = "back" /\ WhereString = <<>> /\ DOMAIN Order = {"id"})
    => <<FirstId, LastId>> = saved

\* C3 (as claimed): a call that returns an error leaves every field of the
\* PicturePage as it was before the call.
C3_ErrorLeavesAllFields == (Called /\ last.err # "none") => Page = pre

\* C3 (amended): a call that returns an error leaves FirstId, LastId and
\* PageNum as they were; a call failing at the boundary check, the id-order
\* check or the count leaves every field as it was (a call whose find fails has
\* already stored TotalItems, TotalPages, the defaulted PerPage and orderStr).
C3_ErrorLeavesCursor ==
  (Called /\ last.err # "none")
    => /\ CursorUnchanged
       /\ last.err \in {"boundary", "config", "count"} => Page = pre

C3_Witness == last.err = "find" /\ Page # pre /\ FirstId # 0

\* C4 (as claimed): without an id entry in Order every call fails with the
\* configuration error and issues no storage call.
C4_NoIdIsConfigError ==
  (Called /\ "id" \notin DOMAIN Order) => (last.err = "config" /\ NoStorageCall)

BoundaryRefused ==
  \/ last.op = "Previous" /\ pre.PageNum = 0
  \/ last.op = "Next" /\ pre.PageNum = pre.TotalPages - 1

\* C4 (amended): without an id entry in Order every call fails and issues no
\* storage call; the error is the boundary error when Previous is called at
\* PageNum = 0 or Next at PageNum = TotalPages - 1, else the configuration error.
C4_NoIdFailsBeforeStorage ==
  (Called /\ "id" \notin DOMAIN Order)
    => /\ NoStorageCall /\ Page = pre
       /\ last.err = (IF BoundaryRefused THEN "boundary" ELSE "config")

C4_Witness == "id" \notin DOMAIN Order /\ last.op = "Previous" /\ last.err = "config"

\* C5: Next() called with PageNum = TotalPages - 1 fails with the boundary
\* error, issues no storage call and leaves FirstId, LastId, PageNum unchanged.
C5_NextAtLastPage ==
  (last.op = "Next" /\ pre.PageNum = pre.TotalPages - 1)
    => (last.err = "boundary" /\ NoStorageCall /\ CursorUnchanged)

C5_Witness ==
  last.op = "Next" /\ last.err = "boundary" /\ walk = "done" /\ PageNum > 0

\* C6: Previous() called with PageNum = 0 fails with the boundary error, issues
\* no storage call and leaves FirstId, LastId, PageNum unchanged; PageNum never
\* goes below 0.
C6_PreviousAtFirstPage ==
  /\ (last.op = "Previous" /\ pre.PageNum = 0)
       => (last.err = "boundary" /\ NoStorageCall /\ CursorUnchanged)
  /\ PageNum >= 0

C6_Witness == walk = "refused" /\ FirstId > 0 /\ last.err = "boundary"

\* C7: from a fresh paginator PageNum stays within the existing pages:
\* 0 <= PageNum, PageNum <= TotalPages - 1 when TotalPages >= 1, and
\* PageNum = 0 when TotalPages = 0.
C7_PageNumWithinPages ==
  fresh => /\ 0 <= PageNum
           /\ TotalPages >= 1 => PageNum <= TotalPages - 1
           /\ TotalPages = 0 => PageNum = 0

\* C8: every call on a paginator with an id order issues exactly one count,
\* and when the count succeeds TotalItems and TotalPages hold the counted
\* values of the data set when the call returns.
C8_CountsOnEveryCall ==
  (Called /\ "id" \in DOMAIN Order)
    => /\ last.counts = 1
       /\ last.err # "count"
            => /\ TotalItems = Cardinality(MatchingIds)
               /\ TotalPages = CeilDiv(TotalItems, PerPage)

ScenarioAsc == db = ScenarioDb /\ Order = [id |-> "asc"] /\ fresh

\* C9: 25 rows with ids 1..25, PerPage 10, Order {id: asc}, fresh paginator:
\* Current() returns 1..10 (FirstId 1, LastId 10, PageNum 0), Next() 11..20
\* (FirstId 11, LastId 20, PageNum 1), Next() 21..25 (PageNum 2), and the next
\* Next() fails with the boundary error, PageNum 2 being TotalPages - 1.
C9_ScenarioAscending ==
  ScenarioAsc =>
    /\ walk = "walking" =>
         /\ TotalPages = 3 /\ PageNum \in 0..2
         /\ PageNum = 0 =>
              last.rows = FromTo(1, 10) /\ FirstId = 1 /\ LastId = 10
         /\ PageNum = 1 =>
              last.rows = FromTo(11, 20) /\ FirstId = 11 /\ LastId = 20
         /\ PageNum = 2 => last.rows = FromTo(21, 25)
    /\ walk = "done" =>
         /\ last.err = "boundary" /\ PageNum = 2 /\ PageNum = TotalPages - 1
         /\ seen = FromTo(1, 25)

C9_Witness == ScenarioAsc /\ walk = "done"

ScenarioDesc == db = ScenarioDb /\ IdDesc /\ DOMAIN Order = {"id"} /\ fresh

\* C10: the same rows with Order {id: desc}: Current() returns 25 down to 16
\* with FirstId 25 and LastId 16, and a Previous() issued then fails with the
\* boundary error without a storage call.
C10_ScenarioDescending ==
  ScenarioDesc =>
    /\ (walk = "walking" /\ PageNum = 0) =>
         last.rows = DownTo(25, 16) /\ FirstId = 25 /\ LastId = 16
    /\ (last.op = "Previous" /\ pre.PageNum = 0 /\ pre.FirstId = 25) =>
         last.err = "boundary" /\ NoStorageCall /\ CursorUnchanged
    /\ walk = "refused" => pre.LastId = 16 /\ pre.FirstId = 25

C10_Witness == ScenarioDesc /\ walk = "refused"

\* C11: after a call that got past the count, TotalItems is the number of rows
\* matching the filter and TotalPages = ceil(TotalItems / PerPage), a PerPage of
\* 0 having been replaced by 10 (and any other kept); no item, no page.
C11_PageCount ==
  (Called /\ last.counts = 1 /\ last.err # "count")
    => /\ TotalItems = Cardinality(MatchingIds)
       /\ PerPage = (IF pre.PerPage = 0 THEN 10 ELSE pre.PerPage)
       /\ TotalPages * PerPage >= TotalItems
       /\ (TotalPages - 1) * PerPage < TotalItems
       /\ TotalItems = 0 => TotalPages = 0

C11_Witness ==
  /\ Called /\ last.counts = 1 /\ last.err # "count"
  /\ pre.PerPage = 10 /\ pre.TotalPages # 0 /\ TotalItems = 2 /\ TotalPages = 1
  /\ PerPage = DefaultPerPage

Succeeded(op) == last.op = op /\ last.err = "none"

\* the bounds after a successful call: first and last returned id, or, when no
\* row was returned, the bounds of before
BoundsFollowRows ==
  IF last.rows # <<>>
    THEN FirstId = last.rows[1] /\ LastId = last.rows[Len(last.rows)]
    ELSE FirstId = pre.FirstId /\ LastId = pre.LastId

\* C17: a successful Current() leaves PageNum unchanged and sets FirstId and
\* LastId to the first and last returned id, or leaves them when no row came.
C17_CurrentFrame ==
  Succeeded("Current") => (PageNum = pre.PageNum /\ BoundsFollowRows)

C17_Witness ==
  Succeeded("Current") /\ Len(last.rows) >= 2 /\ FirstId # pre.FirstId

\* C18: a successful Next() adds 1 to PageNum, a successful Previous() takes 1
\* off; both set FirstId and LastId to the first and last returned id, or leave
\* them (PageNum moving all the same) when no row came.
C18_NextPreviousFrame ==
  /\ Succeeded("Next") => (PageNum = pre.PageNum + 1 /\ BoundsFollowRows)
  /\ Succeeded("Previous") => (PageNum = pre.PageNum - 1 /\ BoundsFollowRows)

C18_Witness ==
  Succeeded("Previous") /\ last.rows # <<>> /\ PageNum = pre.PageNum - 1 /\ PageNum > 0

\* the ids of U that the id restriction of the last call admits
AdmittedIds(U) ==
  LET toks == IF last.id.idStr # <<>> /\ Head(last.id.idStr) = "AND"
                THEN Tail(last.id.idStr) ELSE last.id.idStr
  IN  {i \in U : SqlWhere(toks, last.id.idParams, Row(i, "x"))}

\* the reference table of the id restriction, on the cursor p of before the call
TableIds(U, op, desc, p) ==
  CASE op = "Previous" ->
         IF desc THEN {i \in U : i > p.FirstId} ELSE {i \in U : i < p.FirstId}
    [] op = "Next" ->
         IF desc THEN {i \in U : i < p.LastId} ELSE {i \in U : i > p.LastId}
    [] op = "Current" ->
         IF p.PageNum = 0 /\ p.FirstId = 0 /\ p.LastId = 0
           THEN {i \in U : i > 0}
           ELSE IF desc THEN {i \in U : p.LastId <= i /\ i <= p.FirstId}
                        ELSE {i \in U : p.FirstId <= i /\ i <= p.LastId}

TableParams(op, p) ==
  CASE op = "Previous" -> <<p.FirstId>>
    [] op = "Next" -> <<p.LastId>>
    [] op = "Current" ->
         IF p.PageNum = 0 /\ p.FirstId = 0 /\ p.LastId = 0
           THEN <<0>> ELSE <<p.FirstId, p.LastId>>

\* C20: the id restriction a call builds admits exactly the ids of the
\* reference table for its direction, the id order and the cursor of before the
\* call, its parameters are those cursor values, and building it changes no
\* field (a call whose find then fails has kept FirstId, LastId and PageNum).
C20_IdRestrictTable ==
  (Called /\ last.finds = 1)
    => LET U == (0 - 1)..(Cardinality(db) + 2)
           desc == Order["id"] \in {"desc", "DESC"}
       IN  /\ AdmittedIds(U) = TableIds(U, last.op, desc, pre)
           /\ last.id.idParams = TableParams(last.op, pre)
           /\ last.err = "find" => CursorUnchanged

C20_Witness ==
  /\ Succeeded("Next") /\ Order["id"] = "DESC" /\ pre.LastId > 1
  /\ last.id.idParams = <<pre.LastId>>

ValidDirections == {"previous", "current", "next"}

\* C13: GetPage with "previous", "current" or "next" returns a nil error
\* whatever the delegate did: nil rows when the delegate failed, the delegate's
\* rows when it succeeded.
C13_GetPageSwallows ==
  (ret.api = "GetPage" /\ ret.arg \in ValidDirections)
    => /\ ret.err = "nil"
       /\ last.op = (CASE ret.arg = "previous" -> "Previous"
                        [] ret.arg = "next" -> "Next"
                        [] ret.arg = "current" -> "Current")
       /\ ret.rows = (IF last.err = "none" THEN last.rows ELSE <<>>)

C13_Witness ==
  ret.api = "GetPage" /\ ret.arg = "next" /\ last.err = "find" /\ ret.err = "nil"

\* C14: GetPage with any other string returns nil rows and the wrong-direction
\* error, issues no storage call and leaves every field of the PicturePage.
C14_GetPageWrongDirection ==
  (ret.api = "GetPage" /\ ret.arg \notin ValidDirections)
    => /\ ret.rows = <<>> /\ ret.err = WrongDirection
       /\ NoStorageCall /\ Page = pre

C14_Witness ==
  ret.api = "GetPage" /\ ret.arg = "Next" /\ FirstId > 0 /\ PageNum > 0

StorageFailed == last.err \in {"count", "find"}

\* C15 (as claimed): when the count or the find fails, the call returns no
\* rows and the storage error value itself.
C15_StorageErrorVerbatim ==
  (ret.api \in {"Current", "Previous", "Next"} /\ StorageFailed)
    => (ret.rows = <<>> /\ ret.err = DbError)

\* C15 (amended): when the find fails the call returns no rows and the storage
\* error value itself; when the count fails it returns no rows and a new error
\* whose text is "Calculate page count error: " followed by the storage error.
C15_FindVerbatimCountWrapped ==
  (ret.api \in {"Current", "Previous", "Next"} /\ StorageFailed)
    => /\ ret.rows = <<>>
       /\ last.err = "find" => ret.err = DbError
       /\ last.err = "count" =>
            ret.err = "Calculate page count error: storage error"

C15_Witness == ret.api = "Previous" /\ last.err = "find" /\ ret.err = DbError

NoDuplicate(s) == \A i, j \in 1..Len(s) : i # j => s[i] # s[j]

C19_OrderClauseDeterministic == Cardinality(clauses) <= 1


\* both Next() calls returned rows, the same rows, and PageNum moved by two
SamePageTwice ==
  /\ \A i \in Callers : race.calls[i].pc = "done" /\ race.calls[i].err = "none"
  /\ race.calls[1].rows # <<>>
  /\ race.calls[1].rows = race.calls[2].rows
  /\ PageNum = pre.PageNum + 2

\* C16: two Next() calls on one paginator that do not overlap in time never
\* both return the same page while PageNum advances by 2 (only interleaved
\* calls can reach that state).
C16_SerializedNeverRepeats == ~race.overlap => ~SamePageTwice

\* the interleaved half of C16: such a state, reached by overlapping calls
C16_RaceReached == race.overlap /\ SamePageTwice /\ WhereString = <<>>

\* the serialized half of C16 where the filter has no top-level OR
C16_SerializedPlainFilter ==
  (~race.overlap /\ "OR" \notin SeqRange(WhereString)) => ~SamePageTwice

\* the id restriction of the last call without its joining "AND"
LastRestriction ==
  IF last.id.idStr # <<>> /\ Head(last.id.idStr) = "AND"
    THEN Tail(last.id.idStr) ELSE last.id.idStr

\* the rows satisfying the caller's filter and the id restriction of the last call
FilteredAndRestricted ==
  {r \in db : /\ WhereString = <<>> \/ SqlWhere(WhereString, WhereParams, r)
              /\ SqlWhere(LastRestriction, last.id.idParams, r)}

\* C21: a call that reached the find selected the rows satisfying F AND the id
\* restriction (the restriction alone when F is empty), in the order of the
\* cached ORDER BY list, at most PerPage of them, the filter's parameters bound
\* before the id parameters.
C21_QueryIsFilterAndRestriction ==
  (Called /\ last.finds = 1 /\ last.err = "none")
    => /\ last.rows = Ids(SqlLimit(SqlOrderBy(FilteredAndRestricted, orderStr), PerPage))
       /\ last.query.params = WhereParams \o last.id.idParams
       /\ last.query.order = orderStr /\ last.query.limit = PerPage

\* C22: the ORDER BY list is rendered at most once per paginator: a call that
\* reaches the find with no list cached renders it from the Order map, every
\* call leaves a cached list as it is, and a later change of the Order map
\* changes nothing.
C22_OrderClauseBuiltOnce ==
  /\ Cardinality(clauses) <= 1
  /\ orderStr # <<>> => clauses = {orderStr}
  /\ (Called /\ last.finds = 1 /\ pre.orderStr = <<>>) => orderStr \in buildOrder
  /\ (Called /\ pre.orderStr # <<>>) => orderStr = pre.orderStr

\* a call has succeeded with the list of the map the caller has since replaced
C22_Witness ==
  /\ Called /\ last.err = "none" /\ last.rows # <<>>
  /\ "id" \in DOMAIN Order /\ orderStr \notin buildOrder
  /\ last.query.order = orderStr /\ pre.orderStr = orderStr

\* C23: on a fixed data set Current() followed by repeated Next() is refused
\* after at most TotalPages successful Next() calls; during the pattern the
\* number of successful Next() calls is PageNum.
C23_NextSucceedsAtMostTotalPages ==
  (fresh /\ walk = "walking") => PageNum <= TotalPages

\* the full result of the caller's filter in the order of the cached list
FullResult ==
  Ids(SqlOrderBy({r \in db : WhereString = <<>> \/ SqlWhere(WhereString, WhereParams, r)},
                 orderStr))

\* rows [k * PerPage, (k + 1) * PerPage) of the full result
PageSlice(k) ==
  LET lo == k * PerPage + 1
      hi == IF (k + 1) * PerPage < Len(FullResult) THEN (k + 1) * PerPage
                                                   ELSE Len(FullResult)
  IN  IF k < 0 \/ lo > hi THEN <<>> ELSE SubSeq(FullResult, lo, hi)

\* C24: on a fixed data set with a single-column id order, after Current() and
\* successful Next()/Previous() calls the rows of the last call are the slice
\* of the full result that PageNum names, FirstId and LastId being its first
\* and last id (stated here for the unfiltered listing, where it already fails).
C24_LoadedPageIsPageNum ==
  (fresh /\ walk \in {"walking", "back"} /\ WhereString = <<>> /\ DOMAIN Order = {"id"})
    => /\ last.rows = PageSlice(PageNum)
       /\ last.rows # <<>>
            => FirstId = last.rows[1] /\ LastId = last.rows[Len(last.rows)]

\* C25: on a fixed data set, from every state reachable from a fresh
\* paginator, a Next() that succeeds has returned at least one row.
C25_NextReturnsRows ==
  (fresh /\ last.op = "Next" /\ last.err = "none") => last.rows # <<>>

Decreasing(s) == \A i, j \in 1..Len(s) : i < j => s[i] > s[j]

\* C26: with a descending single-column id order and any filter, a fresh
\* paginator's Current() followed by Next() until the boundary error has
\* returned exactly the ids matching the filter, each once, in decreasing order.
C26_EnumeratesDescending ==
  (fresh /\ walk = "done" /\ DOMAIN Order = {"id"} /\ ToLower(Order["id"]) = "desc")
    => (Decreasing(seen) /\ SeqRange(seen) = MatchingIds)

\* C27: with a further column in the Order map, a fresh paginator's Current()
\* followed by Next() until the boundary error still returns every row
\* matching the filter exactly once (stated here for the unfiltered listing).
C27_MultiColumnEnumerates ==
  (fresh /\ walk = "done" /\ WhereString = <<>> /\ DOMAIN Order = {"id", "name"})
    => (NoDuplicate(seen) /\ SeqRange(seen) = MatchingIds)

\* C28: the count is taken with the caller's filter and its parameters only:
\* after a call whose count succeeded, TotalItems is the number of rows
\* matching the filter and TotalPages its ceiling over PerPage, wherever the
\* cursor (FirstId, LastId, PageNum) stood before the call and stands after it.
C28_CountIgnoresCursor ==
  (Called /\ last.counts = 1 /\ last.err \in {"none", "find"})
    => /\ TotalItems =
            Cardinality({r \in db : WhereString = <<>>
                                      \/ SqlWhere(WhereString, WhereParams, r)})
       /\ TotalPages = CeilDiv(TotalItems, PerPage)

\* a call from a cursor past the first rows has counted all the matching rows
C28_Witness ==
  /\ Called /\ last.counts = 1 /\ last.err = "none"
  /\ pre.LastId >= 2 /\ pre.PageNum >= 1 /\ WhereString # <<>>
  /\ TotalItems >= 2 /\ TotalItems < Cardinality(db)
  /\ Len(last.rows) < TotalItems

\* the fields Current() is claimed to leave alone when repeated
CursorAndTotals == <<FirstId, LastId, PageNum, TotalItems, TotalPages>>

\* C29: on a fixed data set, two Current() calls in a row, made from a state
\* whose bounds a successful call loaded from its rows, return the same rows,
\* and the second leaves FirstId, LastId, PageNum, TotalItems and TotalPages
\* as the first left them.
C29_CurrentIdempotent ==
  [][(/\ fresh /\ pre.FirstId # 0
      /\ last.op = "Current" /\ last.err = "none"
      /\ last'.op = "Current" /\ last'.err = "none")
       => (last'.rows = last.rows /\ CursorAndTotals' = CursorAndTotals)]_vars

\* C30: after a successful call that returned rows under a single-column id
\* order, the rows number between 1 and PerPage, FirstId <= LastId for an
\* ascending and FirstId >= LastId for a descending order, and every returned
\* id lies between FirstId and LastId.
C30_RowsWithinBounds ==
  (Called /\ last.err = "none" /\ last.rows # <<>> /\ DOMAIN Order = {"id"})
    => /\ 1 <= Len(last.rows) /\ Len(last.rows) <= PerPage
       /\ IF ToLower(Order["id"]) = "desc"
            THEN /\ FirstId >= LastId
                 /\ \A i \in SeqRange(last.rows) : LastId <= i /\ i <= FirstId
            ELSE /\ FirstId <= LastId
                 /\ \A i \in SeqRange(last.rows) : FirstId <= i /\ i <= LastId

\* a full descending page of two rows loaded by Next()
C30_Witness ==
  /\ last.op = "Next" /\ last.err = "none" /\ Len(last.rows) = 2 /\ PerPage = 2
  /\ DOMAIN Order = {"id"} /\ ToLower(Order["id"]) = "desc"
  /\ FirstId > LastId /\ pre.PageNum = 0

====
